---- MODULE Spec2Model ----
(***************************************************************************)
(* Model of dateTimeUtils.js: a library of pure calendar conversions       *)
(* (civil date <-> Julian Day, ISO-8601 week dates, absolute months,       *)
(* time of day) plus one function, JDtoDate, that mutates a Date object.   *)
(*                                                                         *)
(* A behaviour is one call: Init draws the function and its arguments,     *)
(* the function's action computes the return value (and, for JDtoDate,     *)
(* the mutation of the caller's Date object).                              *)
(***************************************************************************)
EXTENDS Integers, Sequences, FiniteSets, TLC

VARIABLES
    pc,     \* "call" before the function runs, "return" after
    fn,     \* the function called
    arg,    \* its numeric arguments
    str,    \* its string argument
    form,   \* the shape of the string argument
    date,   \* the caller's Date object (NoDate: none passed)
    ret     \* the value returned

vars == <<pc, fn, arg, str, form, date, ret>>

(***************************************************************************)
(* Bounds of the model.                                                    *)
(***************************************************************************)
\* half-width of each window of Julian Days around an anchor day
JDSpan == 400
\* number of consecutive years taken from each anchor year
YearSpan == 2
\* largest magnitude of an absolute month
MaxADMonth == 30
\* longest malformed string
MaxLen == 3

(***************************************************************************)
(* JavaScript arithmetic.  Math.floor(a / b) is TLA+'s \div for b > 0.     *)
(* "a / b >> 0" truncates toward zero; "a % b" takes the dividend's sign.  *)
(***************************************************************************)
\* (">> 0" also wraps to 32 bits; the quotients here are far inside that.)
Trunc(a, b) == IF a >= 0 THEN a \div b ELSE -((-a) \div b)

Rem(a, b) == IF a >= 0 THEN a % b ELSE -((-a) % b)

(***************************************************************************)
(* JavaScript numbers: an integer, a ratio v / d, or NaN; and the other    *)
(* outcomes of a call: undefined, or a thrown TypeError.                   *)
(***************************************************************************)
Num(n) == [t |-> "num", v |-> n, d |-> 1]

Ratio(n, den) == [t |-> "num", v |-> n, d |-> den]

NaN == [t |-> "nan", v |-> 0, d |-> 1]

Undefined == [t |-> "undefined", v |-> 0, d |-> 1]

Throw == [t |-> "throw", v |-> 0, d |-> 1]

IsNum(x) == x.t = "num"

\* x || dflt for a number or undefined x: 0, NaN and undefined are falsy
OrElse(x, dflt) == IF IsNum(x) /\ x.v # 0 THEN x.v ELSE dflt

\* element i of a JavaScript array: undefined past its end
At(a, i) == IF i <= Len(a) THEN a[i] ELSE Undefined

(***************************************************************************)
(* Civil date <-> Julian Day.                                              *)
(***************************************************************************)
\* JDtoYMD with "/ ... >> 0" in place of Math.floor, as YMDtoDayOfWeek has it
JDtoYMD_Shift(JD) ==
    LET a == JD + 32044
        b == Trunc(4 * a + 3, 146097)
        c == a - Trunc(146097 * b, 4)
        d == Trunc(4 * c + 3, 1461)
        e == c - Trunc(1461 * d, 4)
        m == Trunc(5 * e + 2, 153)
        mnth == m + 3 - 12 * Trunc(m, 10)
        day == e - Trunc(153 * m + 2, 5) + 1
    IN  <<100 * b + d - 4800 + Trunc(m, 10), mnth, day>>

JDtoYMD(JD) ==
    LET a == JD + 32044
        b == (4 * a + 3) \div 146097
        c == a - ((146097 * b) \div 4)
        d == (4 * c + 3) \div 1461
        e == c - ((1461 * d) \div 4)
        m == (5 * e + 2) \div 153
        mnth == m + 3 - 12 * (m \div 10)
        day == e - ((153 * m + 2) \div 5) + 1
    IN  <<100 * b + d - 4800 + (m \div 10), mnth, day>>

\* YMDtoJD with "/ ... >> 0" in place of Math.floor
YMDtoJD_Shift(year, month, day) ==
    LET mon == IF month = 0 THEN 1 ELSE month
        a == Trunc(14 - mon, 12)
        y == year + 4800 - a
        m == mon + 12 * a - 3
    IN  (IF day = 0 THEN 1 ELSE day) + Trunc(153 * m + 2, 5) + 365 * y
        + Trunc(y, 4) - Trunc(y, 100) + Trunc(y, 400) - 32045

\* YMDtoJD without the 400-year leap rule
YMDtoJD_No400(year, month, day) ==
    LET mon == IF month = 0 THEN 1 ELSE month
        a == (14 - mon) \div 12
        y == year + 4800 - a
        m == mon + 12 * a - 3
    IN  (IF day = 0 THEN 1 ELSE day) + ((153 * m + 2) \div 5) + 365 * y
        + (y \div 4) - (y \div 100) - 32045

YMDtoJD(year, month, day) ==
    LET mon == IF month = 0 THEN 1 ELSE month
        a == (14 - mon) \div 12
        y == year + 4800 - a
        m == mon + 12 * a - 3
    IN  (IF day = 0 THEN 1 ELSE day) + ((153 * m + 2) \div 5) + 365 * y
        + (y \div 4) - (y \div 100) + (y \div 400) - 32045

YMDtoDayOfWeek(year, month, day) ==
    LET m == Trunc(14 - month, 12)
        y == year + 4800 - m
        r == Rem(day + Trunc(153 * (month + 12 * m - 3) + 2, 5) + 365 * y
                 + Trunc(y, 4) - Trunc(y, 100) + Trunc(y, 400) - 32045, 7) + 1
    IN  IF r = 7 THEN 0 ELSE r

JDtoDayOfWeek(JD) ==
    LET ymd == JDtoYMD(JD) IN YMDtoDayOfWeek(ymd[1], ymd[2], ymd[3])

YMDtoJDv(year, month, day) ==
    \* the same function on JavaScript values: "month || 1" and "+day || 1"
    \* replace undefined, NaN and 0; a year that is not a number gives NaN
    IF ~IsNum(year) THEN NaN
    ELSE Num(YMDtoJD(year.v, OrElse(month, 1), OrElse(day, 1)))

YMDtoDayOfWeekv(year, month, day) ==
    \* the same function on JavaScript values: NaN >> 0 is 0, so a month
    \* that is not a number drops out of the sum; a year or a day that is
    \* not a number gives NaN
    IF ~IsNum(year) \/ ~IsNum(day) THEN NaN
    ELSE IF IsNum(month) THEN Num(YMDtoDayOfWeek(year.v, month.v, day.v))
    ELSE LET y == year.v + 4800
             r == Rem(day.v + 365 * y + Trunc(y, 4) - Trunc(y, 100)
                      + Trunc(y, 400) - 32045, 7) + 1
         IN  Num(IF r = 7 THEN 0 ELSE r)

(***************************************************************************)
(* ISO-8601 week arithmetic.                                               *)
(***************************************************************************)
YWDoWtoJD(year, week, dow) ==
    LET w == YMDtoDayOfWeek(year, 1, 1)
        dowby == IF w = 0 THEN 7 ELSE w
        jd == IF dowby > 1 /\ dowby < 5
              THEN YMDtoJD(year - 1, 12, 33 - dowby)
              ELSE YMDtoJD(year, 1, IF dowby = 1 THEN 1 ELSE 9 - dowby)
    IN  jd + 7 * (week - 1) + (IF dow = 0 THEN 1 ELSE dow) - 1

YWDoWtoJDv(year, week, dow) ==
    \* the same function on JavaScript values: "dow || 1" replaces
    \* undefined, NaN and 0; a year or a week that is not a number gives NaN
    IF ~IsNum(year) \/ ~IsNum(week) THEN NaN
    ELSE Num(YWDoWtoJD(year.v, week.v, OrElse(dow, 1)))

YMDtoYWd_(year, month, day) ==
    LET tjd == YMDtoJD(year, month, day)
        fwjd == YWDoWtoJD(year, 1, 0)
        fwnyjd == YWDoWtoJD(year + 1, 1, 0)
    IN  IF tjd >= fwnyjd
        THEN <<year + 1, 1, 1 + Rem(tjd - fwnyjd, 7)>>
        ELSE LET yr == IF tjd < fwjd THEN year - 1 ELSE year
                 fw == IF tjd < fwjd THEN YWDoWtoJD(year - 1, 1, 0) ELSE fwjd
             IN  <<yr, Trunc(7 + (tjd - fw), 7), 1 + Rem(tjd - fw, 7)>>

YMDtoWeekNumber(year, month, day) == YMDtoYWd_(year, month, day)[2]

JDtoWeekNumber(JD) ==
    LET ymd == JDtoYMD(JD) IN YMDtoWeekNumber(ymd[1], ymd[2], ymd[3])

(***************************************************************************)
(* Strings are sequences of one-character strings.                         *)
(***************************************************************************)
DigitChars == <<"0", "1", "2", "3", "4", "5", "6", "7", "8", "9">>

IsDigit(c) == \E i \in 1..10 : DigitChars[i] = c

DigitVal(c) == (CHOOSE i \in 1..10 : DigitChars[i] = c) - 1

RECURSIVE Digits(_)
\* the decimal digits of a natural number
Digits(n) == IF n < 10 THEN <<DigitChars[n + 1]>>
             ELSE Digits(n \div 10) \o <<DigitChars[(n % 10) + 1]>>

\* n + '' : a number converted to a string
ToStr(n) == IF n < 0 THEN <<"-">> \o Digits(-n) ELSE Digits(n)

RECURSIVE DigitsVal(_)
DigitsVal(s) == IF s = <<>> THEN 0
                ELSE 10 * DigitsVal(SubSeq(s, 1, Len(s) - 1)) + DigitVal(s[Len(s)])

IsDigits(s) == Len(s) > 0 /\ \A i \in 1..Len(s) : IsDigit(s[i])

\* Number(s), +s : the empty string is 0, an optionally signed run of
\* digits is its value, any other text is NaN
Number(s) ==
    IF s = <<>> THEN Num(0)
    ELSE IF IsDigits(s) THEN Num(DigitsVal(s))
    ELSE IF s[1] = "-" /\ IsDigits(Tail(s)) THEN Num(-DigitsVal(Tail(s)))
    ELSE NaN

\* +a[i] for an array a of strings: undefined past the end converts to NaN
NumberAt(a, i) == IF i <= Len(a) THEN Number(a[i]) ELSE NaN

Contains(s, c) == \E i \in 1..Len(s) : s[i] = c

RECURSIVE Split(_, _)
\* s.split(c) : always at least one piece
Split(s, c) ==
    IF ~Contains(s, c) THEN <<s>>
    ELSE LET i == CHOOSE k \in 1..Len(s) :
                      s[k] = c /\ \A j \in 1..(k - 1) : s[j] # c
         IN  <<SubSeq(s, 1, i - 1)>> \o Split(SubSeq(s, i + 1, Len(s)), c)

\* a.map(Number)
MapNumber(a) == [i \in 1..Len(a) |-> Number(a[i])]

\* s.substr(1)
Substr1(s) == IF s = <<>> THEN <<>> ELSE Tail(s)

pad_(n) == IF n < 10 THEN <<"0">> \o ToStr(n) ELSE ToStr(n)

(***************************************************************************)
(* ISO-8601 strings.                                                       *)
(***************************************************************************)
\* ISOtoJD that does not pass the weekday of a week date on
ISOtoJD_NoWeekday(ISODate) ==
    IF Contains(ISODate, "W")
    THEN LET ywd == Split(ISODate, "-")
         IN  IF Len(ywd) < 2 THEN Throw
             ELSE YWDoWtoJDv(Number(ywd[1]), Number(Substr1(ywd[2])),
                             Undefined)
    ELSE LET a == MapNumber(Split(Split(ISODate, "T")[1], "-"))
         IN  YMDtoJDv(At(a, 1), At(a, 2), At(a, 3))

ISOtoJD(ISODate) ==
    IF Contains(ISODate, "W")
    THEN LET ywd == Split(ISODate, "-")
         IN  IF Len(ywd) < 2 THEN Throw   \* undefined.substr: TypeError
             ELSE YWDoWtoJDv(Number(ywd[1]), Number(Substr1(ywd[2])),
                             NumberAt(ywd, 3))
    ELSE LET a == MapNumber(Split(Split(ISODate, "T")[1], "-"))
         IN  YMDtoJDv(At(a, 1), At(a, 2), At(a, 3))

YDMtoISO_YW(year, month, day) ==
    LET d == YMDtoYWd_(year, month, day)
    IN  ToStr(d[1]) \o <<"-", "W">> \o pad_(d[2])

YDMtoISO_YWD(year, month, day) ==
    LET d == YMDtoYWd_(year, month, day)
    IN  ToStr(d[1]) \o <<"-", "W">> \o pad_(d[2]) \o <<"-">> \o ToStr(d[3])

JDtoISO_YMD(JD) ==
    LET ymd == JDtoYMD(JD)
    IN  ToStr(ymd[1]) \o <<"-">> \o pad_(ymd[2]) \o <<"-">> \o pad_(ymd[3])

ISO_YMDtoDayOfWeek(YYMMDD) ==
    LET a == MapNumber(Split(YYMMDD, "-"))
    IN  YMDtoDayOfWeekv(At(a, 1), At(a, 2), At(a, 3))

(***************************************************************************)
(* Time of day.                                                            *)
(***************************************************************************)
HMtoMinutes(hours, minutes) ==
    IF ~IsNum(hours) THEN NaN
    ELSE Num(hours.v * 60 + OrElse(minutes, 0))

HMStoSeconds(hours, minutes, seconds) ==
    IF ~IsNum(hours) THEN NaN
    ELSE Num(hours.v * 3600 + OrElse(minutes, 0) * 60 + OrElse(seconds, 0))

ISO_HMtoMinutes(HHMM) ==
    LET a == MapNumber(Split(HHMM, ":")) IN HMtoMinutes(At(a, 1), At(a, 2))

ISO_HMStoSeconds(HHMMSS) ==
    LET a == MapNumber(Split(HHMMSS, ":"))
    IN  HMStoSeconds(At(a, 1), At(a, 2), At(a, 3))

ISO_HMStoPercents(HHMMSS) ==
    LET s == ISO_HMStoSeconds(HHMMSS)
    IN  IF IsNum(s) THEN Ratio(s.v * 100, 86399) ELSE NaN

(***************************************************************************)
(* Absolute months.                                                        *)
(***************************************************************************)
ISOtoADMonth(YM) ==
    LET s == MapNumber(Split(YM, "-"))
    IN  IF ~IsNum(s[1]) THEN NaN
        ELSE Num(s[1].v * 12 + OrElse(At(s, 2), 1) - 1)

ADMonthToISO_YM(adMonth) ==
    ToStr(Trunc(adMonth, 12)) \o <<"-">> \o pad_(Rem(adMonth, 12) + 1)

ADMonthToJD(adMonth) == YMDtoJD(Trunc(adMonth, 12), Rem(adMonth, 12) + 1, 1)

(***************************************************************************)
(* The Gregorian calendar, as the reference the conversions are compared   *)
(* with.                                                                   *)
(***************************************************************************)
IsLeapYear(y) == (y % 4 = 0 /\ y % 100 # 0) \/ y % 400 = 0

DaysInMonth(y, m) ==
    IF m = 2 THEN (IF IsLeapYear(y) THEN 29 ELSE 28)
    ELSE IF m \in {4, 6, 9, 11} THEN 30 ELSE 31

NextDay(y, m, d) ==
    IF d < DaysInMonth(y, m) THEN <<y, m, d + 1>>
    ELSE IF m < 12 THEN <<y, m + 1, 1>>
    ELSE <<y + 1, 1, 1>>

(***************************************************************************)
(* The Date object, as far as JDtoDate uses it.  month is 0-based.         *)
(***************************************************************************)
NoDate == [year |-> 0, month |-> 0, day |-> 0, hours |-> 0, minutes |-> 0,
           seconds |-> 0, ms |-> 0, exists |-> FALSE]

\* date.setHours(h, m, s, ms)
setHours(dt, h, m, s, ms) ==
    [dt EXCEPT !.hours = h, !.minutes = m, !.seconds = s, !.ms = ms]

\* date.setFullYear(y, m, d), for a month in 0..11 and a day of that month:
\* the time within the day is kept
setFullYear(dt, y, m, d) ==
    [dt EXCEPT !.year = y, !.month = m, !.day = d]

\* JDtoDate that clears the time of day of a Date object passed in, too
JDtoDate_AlwaysClear(JD, dt, now) ==
    LET ymd == JDtoYMD(JD)
        d0 == setHours(IF ~dt.exists THEN now ELSE dt, 0, 0, 0, 0)
    IN  setFullYear(d0, ymd[1], ymd[2] - 1, ymd[3])

\* the object JDtoDate returns; now is the value of "new Date"
JDtoDate(JD, dt, now) ==
    LET ymd == JDtoYMD(JD)
        d0 == IF ~dt.exists THEN setHours(now, 0, 0, 0, 0) ELSE dt
    IN  setFullYear(d0, ymd[1], ymd[2] - 1, ymd[3])

(***************************************************************************)
(* Inputs.                                                                 *)
(***************************************************************************)
AnchorJDs == {-100000, -32044, 0, 1721060, 2415021, 2451545, 3000000}

JDs == UNION {(j - JDSpan)..(j + JDSpan) : j \in AnchorJDs}

AnchorYears == {-4801, -4714, -401, -1, 1899, 1999, 2015, 2020, 2099}

Years == UNION {y..(y + YearSpan) : y \in AnchorYears}

Dates == {<<y, m, d>> \in Years \X (1..12) \X (1..31) : d <= DaysInMonth(y, m)}

ADMonths == (-MaxADMonth)..MaxADMonth

\* the texts a caller writes: four-digit years
TextYears == {y \in Years : y >= 0 /\ y <= 9999}

YearText(y) ==
    (IF y < 10 THEN <<"0", "0", "0">> ELSE IF y < 100 THEN <<"0", "0">>
     ELSE IF y < 1000 THEN <<"0">> ELSE <<>>) \o ToStr(y)

TimeSuffix == <<"T", "1", "0", ":", "0", "0">>

WeekText(y, w, d, shape) ==
    YearText(y) \o <<"-", "W">> \o pad_(w)
    \o (IF shape = "YW" THEN <<>> ELSE <<"-">> \o ToStr(d))
    \o (IF shape = "YWDT" THEN TimeSuffix ELSE <<>>)

DateText(y, m, d, shape) ==
    YearText(y)
    \o (IF shape = "Y" THEN <<>> ELSE <<"-">> \o pad_(m))
    \o (IF shape \in {"Y", "YM"} THEN <<>> ELSE <<"-">> \o pad_(d))
    \o (IF shape = "YMDT" THEN TimeSuffix ELSE <<>>)

Alphabet == {"1", "-", "W", "T", ":"}

Texts == UNION {[1..n -> Alphabet] : n \in 0..MaxLen}

ParseFns == {"ISOtoJD", "ISOtoADMonth", "ISO_YMDtoDayOfWeek",
             "ISO_HMtoMinutes", "ISO_HMStoSeconds", "ISO_HMStoPercents"}

DateFns == {"YMDtoJD", "YMDtoDayOfWeek", "YMDtoYWd_", "YMDtoWeekNumber",
            "YDMtoISO_YW", "YDMtoISO_YWD"}

ExistingDates ==
    [year : {2015}, month : {0, 11}, day : {31}, hours : {0, 13},
     minutes : {0, 59}, seconds : {30}, ms : {999}, exists : {TRUE}]

\* values "new Date" can produce
Nows ==
    {[year |-> 2026, month |-> 10, day |-> 4, hours |-> 6, minutes |-> 5,
      seconds |-> 59, ms |-> 123, exists |-> TRUE],
     [year |-> 1999, month |-> 11, day |-> 31, hours |-> 23, minutes |-> 59,
      seconds |-> 59, ms |-> 999, exists |-> TRUE]}

Init ==
    /\ pc = "call"
    /\ ret = Undefined
    /\ \/ /\ fn \in {"JDtoYMD", "JDtoDayOfWeek", "JDtoWeekNumber",
                    "JDtoISO_YMD"}
          /\ arg \in {<<j>> : j \in JDs}
          /\ str = <<>> /\ form = "" /\ date = NoDate
       \/ /\ fn \in DateFns
          /\ arg \in Dates
          /\ str = <<>> /\ form = "" /\ date = NoDate
       \/ /\ fn \in {"ADMonthToISO_YM", "ADMonthToJD"}
          /\ arg \in {<<n>> : n \in ADMonths}
          /\ str = <<>> /\ form = "" /\ date = NoDate
       \/ /\ fn = "JDtoDate"
          /\ arg \in {<<j>> : j \in JDs}
          /\ date \in ExistingDates \cup {NoDate}
          /\ str = <<>> /\ form = ""
       \/ /\ fn \in ParseFns
          /\ str \in Texts
          /\ arg = <<>> /\ form = "text" /\ date = NoDate
       \/ /\ fn = "ISOtoJD"
          /\ form \in {"YW", "YWD", "YWDT"}
          /\ arg \in TextYears \X (1..53) \X (1..7)
          /\ str = WeekText(arg[1], arg[2], arg[3], form)
          /\ date = NoDate
       \/ /\ fn = "ISOtoJD"
          /\ form \in {"Y", "YM", "YMD", "YMDT"}
          /\ arg \in {d \in Dates : d[1] \in TextYears}
          /\ str = DateText(arg[1], arg[2], arg[3], form)
          /\ date = NoDate

Return(v) ==
    /\ pc = "call"
    /\ pc' = "return"
    /\ ret' = v
    /\ UNCHANGED <<fn, arg, str, form>>

CallJDtoYMD ==
    fn = "JDtoYMD" /\ Return(JDtoYMD(arg[1])) /\ UNCHANGED date

CallJDtoDayOfWeek ==
    fn = "JDtoDayOfWeek" /\ Return(Num(JDtoDayOfWeek(arg[1]))) /\ UNCHANGED date

CallJDtoWeekNumber ==
    fn = "JDtoWeekNumber" /\ Return(Num(JDtoWeekNumber(arg[1])))
    /\ UNCHANGED date

CallJDtoISO_YMD ==
    fn = "JDtoISO_YMD" /\ Return(JDtoISO_YMD(arg[1])) /\ UNCHANGED date

CallADMonthToJD ==
    fn = "ADMonthToJD" /\ Return(Num(ADMonthToJD(arg[1]))) /\ UNCHANGED date

CallYMDtoJD ==
    fn = "YMDtoJD" /\ Return(Num(YMDtoJD(arg[1], arg[2], arg[3])))
    /\ UNCHANGED date

CallYMDtoDayOfWeek ==
    fn = "YMDtoDayOfWeek" /\ Return(Num(YMDtoDayOfWeek(arg[1], arg[2], arg[3])))
    /\ UNCHANGED date

CallYMDtoYWd_ ==
    fn = "YMDtoYWd_" /\ Return(YMDtoYWd_(arg[1], arg[2], arg[3]))
    /\ UNCHANGED date

CallYMDtoWeekNumber ==
    fn = "YMDtoWeekNumber"
    /\ Return(Num(YMDtoWeekNumber(arg[1], arg[2], arg[3])))
    /\ UNCHANGED date

CallYDMtoISO_YW ==
    fn = "YDMtoISO_YW" /\ Return(YDMtoISO_YW(arg[1], arg[2], arg[3]))
    /\ UNCHANGED date

CallYDMtoISO_YWD ==
    fn = "YDMtoISO_YWD" /\ Return(YDMtoISO_YWD(arg[1], arg[2], arg[3]))
    /\ UNCHANGED date

CallADMonthToISO_YM ==
    fn = "ADMonthToISO_YM" /\ Return(ADMonthToISO_YM(arg[1])) /\ UNCHANGED date

CallISOtoJD ==
    fn = "ISOtoJD" /\ Return(ISOtoJD(str)) /\ UNCHANGED date

CallISOtoADMonth ==
    fn = "ISOtoADMonth" /\ Return(ISOtoADMonth(str)) /\ UNCHANGED date

CallISO_YMDtoDayOfWeek ==
    fn = "ISO_YMDtoDayOfWeek" /\ Return(ISO_YMDtoDayOfWeek(str))
    /\ UNCHANGED date

CallISO_HMtoMinutes ==
    fn = "ISO_HMtoMinutes" /\ Return(ISO_HMtoMinutes(str)) /\ UNCHANGED date

CallISO_HMStoSeconds ==
    fn = "ISO_HMStoSeconds" /\ Return(ISO_HMStoSeconds(str)) /\ UNCHANGED date

CallISO_HMStoPercents ==
    fn = "ISO_HMStoPercents" /\ Return(ISO_HMStoPercents(str)) /\ UNCHANGED date

\* with a Date object the object itself is changed and returned; without
\* one a new object is returned
CallJDtoDate ==
    /\ fn = "JDtoDate"
    /\ \E now \in (IF date.exists THEN {date} ELSE Nows) :
          LET r == JDtoDate(arg[1], date, now)
          IN  /\ Return([ref |-> IF date.exists THEN "date" ELSE "new", obj |-> r])
              /\ date' = IF date.exists THEN r ELSE date

Next ==
    \/ CallJDtoYMD
    \/ CallJDtoDayOfWeek
    \/ CallJDtoWeekNumber
    \/ CallJDtoISO_YMD
    \/ CallADMonthToJD
    \/ CallYMDtoJD
    \/ CallYMDtoDayOfWeek
    \/ CallYMDtoYWd_
    \/ CallYMDtoWeekNumber
    \/ CallYDMtoISO_YW
    \/ CallYDMtoISO_YWD
    \/ CallADMonthToISO_YM
    \/ CallISOtoJD
    \/ CallISOtoADMonth
    \/ CallISO_YMDtoDayOfWeek
    \/ CallISO_HMtoMinutes
    \/ CallISO_HMStoSeconds
    \/ CallISO_HMStoPercents
    \/ CallJDtoDate

Spec == Init /\ [][Next]_vars

\* C1: the date JDtoYMD returns for a Julian Day converts back, by YMDtoJD,
\* to that Julian Day
C1_RoundTripJD ==
    (pc = "return" /\ fn = "JDtoYMD") =>
        YMDtoJD(ret[1], ret[2], ret[3]) = arg[1]

C1_Witness ==
    pc = "return" /\ fn = "JDtoYMD" /\ arg[1] < -32044
    /\ YMDtoJD(ret[1], ret[2], ret[3]) = arg[1]

\* C2: the Julian Day YMDtoJD returns for a valid Gregorian date converts
\* back, by JDtoYMD, to that date
C2_RoundTripYMD ==
    (pc = "return" /\ fn = "YMDtoJD") => JDtoYMD(ret.v) = arg

C2_Witness ==
    pc = "return" /\ fn = "YMDtoJD" /\ arg[1] <= 0 /\ arg[2] = 2
    /\ arg[3] = 29 /\ JDtoYMD(ret.v) = arg

\* C3: the Julian Day of the calendar successor of a valid Gregorian date
\* is the Julian Day of the date plus one
C3_SuccessorPlusOne ==
    (pc = "return" /\ fn = "YMDtoJD") =>
        LET n == NextDay(arg[1], arg[2], arg[3])
        IN  YMDtoJD(n[1], n[2], n[3]) = ret.v + 1

C3_Witness ==
    pc = "return" /\ fn = "YMDtoJD" /\ arg[2] = 12 /\ arg[3] = 31
    /\ YMDtoJD(arg[1] + 1, 1, 1) = ret.v + 1

(***************************************************************************)
(* The ISO-8601 week date of a Julian Day, as the reference the week       *)
(* functions are compared with.  Julian Day 0 is a Monday.                 *)
(***************************************************************************)
IsoWeekday(jd) == (jd % 7) + 1

\* the civil year of the Thursday of the Monday-to-Sunday week of jd
IsoYear(jd) == JDtoYMD(jd - (jd % 7) + 3)[1]

\* the Monday of the week that contains January 4 of year y
IsoWeek1Monday(y) == LET j4 == YMDtoJD(y, 1, 4) IN j4 - (j4 % 7)

IsoWeek(jd) == 1 + ((jd - IsoWeek1Monday(IsoYear(jd))) \div 7)

\* C4: the decomposition of a valid Gregorian date is its ISO-8601 week
\* date: ISO year, week number in 1..53, weekday 1 = Monday .. 7 = Sunday
C4_IsoWeekDate ==
    (pc = "return" /\ fn = "YMDtoYWd_") =>
        LET jd == YMDtoJD(arg[1], arg[2], arg[3])
        IN  /\ ret = <<IsoYear(jd), IsoWeek(jd), IsoWeekday(jd)>>
            /\ ret[2] \in 1..53
            /\ ret[1] - arg[1] \in {-1, 0, 1}

\* C5, as stated: for a valid Gregorian date of a non-negative year,
\* ISOtoJD of the text YDMtoISO_YWD returns is the date's Julian Day
C5_WeekTextRoundTrip ==
    (pc = "return" /\ fn = "YDMtoISO_YWD" /\ arg[1] >= 0) =>
        ISOtoJD(ret) = Num(YMDtoJD(arg[1], arg[2], arg[3]))

\* C5, amended: for a valid Gregorian date whose ISO week-numbering year is
\* non-negative, ISOtoJD of the text YDMtoISO_YWD returns is the date's
\* Julian Day
C5_WeekTextRoundTripIsoYear ==
    (pc = "return" /\ fn = "YDMtoISO_YWD"
     /\ YMDtoYWd_(arg[1], arg[2], arg[3])[1] >= 0) =>
        ISOtoJD(ret) = Num(YMDtoJD(arg[1], arg[2], arg[3]))

C5_Witness ==
    pc = "return" /\ fn = "YDMtoISO_YWD" /\ arg = <<2016, 1, 1>>
    /\ ret = <<"2", "0", "1", "5", "-", "W", "5", "3", "-", "5">>
    /\ ISOtoJD(ret) = Num(YMDtoJD(2016, 1, 1))

\* C6: for a valid Gregorian date of any year, YMDtoDayOfWeek returns the
\* weekday 0 = Sunday .. 6 = Saturday, (YMDtoJD + 1) mod 7
C6_DayOfWeek ==
    (pc = "return" /\ fn = "YMDtoDayOfWeek") =>
        /\ ret.v \in 0..6
        /\ ret.v = (YMDtoJD(arg[1], arg[2], arg[3]) + 1) % 7

\* C7: ISOtoADMonth of the text ADMonthToISO_YM returns for an integer n,
\* negative ones included, is n
C7_ADMonthRoundTrip ==
    (pc = "return" /\ fn = "ADMonthToISO_YM") => ISOtoADMonth(ret) = Num(arg[1])

\* C8: JDtoDate with a Date object sets that object's year, month and day
\* to JDtoYMD(jd), leaves its hours, minutes, seconds and milliseconds
\* unchanged and returns that object; without one it returns a new object
\* with the date of JDtoYMD(jd) and a time of day of zero
C8_JDtoDateContract ==
    [][(pc = "call" /\ fn = "JDtoDate") =>
          LET ymd == JDtoYMD(arg[1])
          IN  IF date.exists
              THEN /\ date' = [date EXCEPT !.year = ymd[1],
                                           !.month = ymd[2] - 1,
                                           !.day = ymd[3]]
                   /\ ret'.ref = "date" /\ ret'.obj = date'
              ELSE /\ date' = date
                   /\ ret'.ref = "new"
                   /\ ret'.obj = [year |-> ymd[1], month |-> ymd[2] - 1,
                                  day |-> ymd[3], hours |-> 0, minutes |-> 0,
                                  seconds |-> 0, ms |-> 0, exists |-> TRUE]]_vars

C8_Witness ==
    /\ pc = "return" /\ fn = "JDtoDate" /\ arg = <<2451545>>
    /\ ret.ref = "date"
    /\ date = [year |-> 2000, month |-> 0, day |-> 1, hours |-> 13,
               minutes |-> 59, seconds |-> 30, ms |-> 999, exists |-> TRUE]

\* C9: the string-parsing functions return a number or NaN, and never
\* throw, for every string
C9_NeverThrows ==
    (pc = "return" /\ fn \in ParseFns) => ret.t \in {"num", "nan"}

\* C10: ISOtoJD of a week date, with or without a time-of-day suffix, is
\* YWDoWtoJD of its year, week and weekday; and ISOtoJD of a calendar date
\* with the suffix is the Julian Day of the date
C10_WeekDateWithTime ==
    (pc = "return" /\ fn = "ISOtoJD") =>
        /\ form \in {"YWD", "YWDT"} =>
               ret = Num(YWDoWtoJD(arg[1], arg[2], arg[3]))
        /\ form \in {"YMD", "YMDT"} =>
               ret = Num(YMDtoJD(arg[1], arg[2], arg[3]))

====
